---- MODULE Spec2Model ----
(***************************************************************************)
(* Model of the setup pipeline of the @prisma/nuxt module (src/module.ts,  *)
(* the second defineNuxtModule of the file, lines 299-719).                *)
(*                                                                         *)
(* The state is the module options, the process environment, the files    *)
(* the pipeline reads and writes, and the position of setup() in its       *)
(* sequence of awaited handlers.  Every handler (promptCli, ...) is one    *)
(* action; the functions it calls are operators on a record `w` holding    *)
(* the part of the world a handler can change.  External commands and      *)
(* prompt answers are inputs, drawn with \E.                               *)
(***************************************************************************)
EXTENDS Integers, Sequences, FiniteSets, TLC

VARIABLES
    options,             \* module options passed to setup()
    npm_lifecycle_event, \* import.meta.env.npm_lifecycle_event
    SKIP_PRISMA_SETUP,   \* import.meta.env.SKIP_PRISMA_SETUP is set (to a truthy value)
    rootDir,             \* nuxt.options.rootDir
    schema,              \* <rootDir>/prisma/schema.prisma
    accessor,            \* lib/prisma.ts, per directory
    libDir,              \* <cwd>/lib exists
    cliPresent,          \* `prisma version` would succeed
    pc,                  \* position of setup()
    trace,               \* external commands and file operations of this run, in order
    answers,             \* answer given to each prompt of this run ("none": not asked)
    cliFound,            \* what detectCli found in this run
    schemaAtStart,       \* the schema file when this run started
    customTabs,          \* devtools:customTabs hooks registered in this run
    studio,              \* the `prisma studio` child process of this run was started
    pluginAdded          \* addPlugin(runtime/plugin) was called in this run

vars == <<options, npm_lifecycle_event, SKIP_PRISMA_SETUP, rootDir, schema, accessor,
          libDir, cliPresent, pc, trace, answers, cliFound, schemaAtStart,
          customTabs, studio, pluginAdded>>

(***************************************************************************)
(* Domains                                                                 *)
(***************************************************************************)
Flags == {"installCli", "initPrisma", "writeToSchema", "formatSchema", "runMigration",
          "installClient", "generateClient", "installStudio", "skipInstallations",
          "autoSetupPrisma"}

LifecycleEvents == {"dev", "postinstall", "test"}

\* the process working directory, and another directory a project may live in
Cwd == "cwd"
Dirs == {"cwd", "project"}

Prompts == {"installPrisma", "initPrisma", "runMigration", "generateClient", "installStudio"}

NoAnswers == [p \in Prompts |-> "none"]

NoFile == [exists |-> FALSE, text |-> <<>>]

\* what `prisma init --datasource-provider sqlite` writes to prisma/schema.prisma
InitSchemaText == <<"generator", "nl", "datasource", "nl">>

\* the template literal of writeToSchema
addModel == <<"nl", "model User", "nl", "nl", "model Post", "nl">>

(***************************************************************************)
(* Pure helpers                                                            *)
(***************************************************************************)
RECURSIVE TrimStart(_)
TrimStart(s) == IF s # <<>> /\ Head(s) = "nl" THEN TrimStart(Tail(s)) ELSE s

RECURSIVE TrimEnd(_)
TrimEnd(s) ==
    IF s # <<>> /\ s[Len(s)] = "nl" THEN TrimEnd(SubSeq(s, 1, Len(s) - 1)) ELSE s

\* String.prototype.trim
Trim(s) == TrimEnd(TrimStart(s))

IsText(t) == t # "nl"

RECURSIVE Lines(_)
Lines(s) == IF s = <<>> THEN <<>> ELSE <<Head(s), "nl">> \o Lines(Tail(s))

\* `prisma format`: one block per line, no blank lines
Format(s) == Lines(SelectSeq(s, IsText))

\* the schema file a complete earlier run of the pipeline leaves behind
ExistingSchema ==
    [exists |-> TRUE,
     text |-> Format(Trim(InitSchemaText) \o <<"nl", "nl">> \o addModel)]

Range(s) == {s[i] : i \in DOMAIN s}

Count(s, e) == Cardinality({i \in DOMAIN s : s[i] = e})

Before(s, a, b) == \E i, j \in DOMAIN s : i < j /\ s[i] = a /\ s[j] = b

(***************************************************************************)
(* The world a handler acts on, with the inputs of one call of a handler:  *)
(* ans is the answer the user gives if the handler prompts, faults the     *)
(* operations that fail for a reason outside the model (network,           *)
(* permissions, disk).  asked and able record which inputs were consumed.  *)
(***************************************************************************)
World(ans, faults) ==
    [schema |-> schema, accessor |-> accessor, libDir |-> libDir, cli |-> cliPresent,
     trace |-> trace, answers |-> answers, found |-> cliFound, tabs |-> customTabs,
     studio |-> studio,
     exc |-> FALSE, ans |-> ans, faults |-> faults, asked |-> FALSE, able |-> {}]

\* an awaited command or a synchronous fs call: it throws when it fails, which it
\* does when the state does not allow it to succeed (~can) or a fault hits it
Exec(w, cmd, can) ==
    [w EXCEPT !.trace = Append(@, cmd),
              !.able = IF can THEN @ \cup {cmd} ELSE @,
              !.exc = ~can \/ cmd \in w.faults]

\* catch { error(...) }
Caught(w) == [w EXCEPT !.exc = FALSE]

\* await prompts({type: "confirm", name: p, ...}); response?.[p] === true
Ask(w, p) ==
    [w EXCEPT !.answers[p] = IF w.ans THEN "yes" ELSE "no", !.asked = TRUE]

force_skip_prisma_setup == SKIP_PRISMA_SETUP \/ npm_lifecycle_event = "test"

(***************************************************************************)
(* Step functions                                                          *)
(***************************************************************************)
detectCli(w) ==
    LET r == Exec(w, "prisma version", w.cli)
    IN  [r EXCEPT !.found = IF w.cli THEN "present" ELSE "absent"]

\* installCli without its try/catch
installCli_noCatch(w) ==
    IF options.installCli
    THEN LET r == Exec(w, "npm install prisma", TRUE)
         IN  IF r.exc THEN r ELSE [r EXCEPT !.cli = TRUE]
    ELSE w

installCli(w) ==
    IF options.installCli
    THEN LET r == Exec(w, "npm install prisma", TRUE)
         IN  Caught(IF r.exc THEN r ELSE [r EXCEPT !.cli = TRUE])
    ELSE w

\* initPrisma without its try/catch
initPrisma_noCatch(w) ==
    IF options.initPrisma
    THEN LET r == Exec(w, "prisma init", ~w.schema.exists)
         IN  IF r.exc THEN r
             ELSE [r EXCEPT !.schema = [exists |-> TRUE, text |-> InitSchemaText]]
    ELSE w

\* `prisma init` refuses to run on a project that has a prisma/schema.prisma
initPrisma(w) ==
    IF options.initPrisma
    THEN LET r == Exec(w, "prisma init", ~w.schema.exists)
         IN  Caught(IF r.exc THEN r
                    ELSE [r EXCEPT !.schema = [exists |-> TRUE, text |-> InitSchemaText]])
    ELSE w

writeToSchema(w) ==
    IF options.writeToSchema
    THEN LET rd == Caught(Exec(w, "read schema", w.schema.exists))
             existingSchema == IF w.schema.exists THEN w.schema.text ELSE <<>>
             updatedSchema == Trim(existingSchema) \o <<"nl", "nl">> \o addModel
             wr == Exec(rd, "write schema", TRUE)
         IN  Caught(IF wr.exc THEN wr
                    ELSE [wr EXCEPT !.schema = [exists |-> TRUE, text |-> updatedSchema]])
    ELSE w

\* formatSchema without the test of its flag
formatSchema_ignoresFlag(w) ==
    LET r == Exec(w, "prisma format", w.schema.exists)
    IN  Caught(IF r.exc THEN r ELSE [r EXCEPT !.schema.text = Format(@)])

formatSchema(w) ==
    IF options.formatSchema
    THEN LET r == Exec(w, "prisma format", w.schema.exists)
         IN  Caught(IF r.exc THEN r ELSE [r EXCEPT !.schema.text = Format(@)])
    ELSE w

runMigration(w) ==
    IF options.runMigration
    THEN Caught(Exec(w, "prisma migrate", w.schema.exists))
    ELSE w

generateClient(w) ==
    IF options.installClient /\ options.generateClient
    THEN LET r1 == Exec(w, "npm install @prisma/client", TRUE)
         IN  Caught(IF r1.exc THEN r1
                    ELSE Exec(r1, "prisma generate", w.schema.exists))
    ELSE w

installStudio(w) ==
    IF options.installStudio
    THEN LET r == Exec(w, "prisma studio", TRUE)
         IN  Caught(IF r.exc THEN r ELSE [r EXCEPT !.studio = TRUE])
    ELSE w

\* nuxt.hooks.hook("devtools:customTabs", ...)
addCustomTab(w) == [w EXCEPT !.tabs = @ + 1]

(***************************************************************************)
(* Handlers                                                                *)
(***************************************************************************)
\* promptCli without the return that follows a successful detection
promptCli_noReturn(w) ==
    IF options.autoSetupPrisma
    THEN installCli(w)
    ELSE LET p == Ask(Caught(detectCli(w)), "installPrisma")
         IN  IF p.ans THEN installCli(p) ELSE p

promptCli(w) ==
    IF options.autoSetupPrisma
    THEN installCli(w)
    ELSE LET d == detectCli(w)
         IN  IF ~d.exc
             THEN d
             ELSE LET p == Ask(Caught(d), "installPrisma")
                  IN  IF p.ans THEN installCli(p) ELSE p

\* await initPrisma(); await writeToSchema(); await formatSchema()
initWriteFormat(w) ==
    LET a == initPrisma(w)
        b == IF a.exc THEN a ELSE writeToSchema(a)
    IN  IF b.exc THEN b ELSE formatSchema(b)

\* promptInitPrisma without the test of schemaExists
promptInitPrisma_noExistsCheck(w) ==
    IF options.autoSetupPrisma
    THEN initWriteFormat(w)
    ELSE LET p == Ask(w, "initPrisma")
         IN  IF p.ans THEN initWriteFormat(p) ELSE p

promptInitPrisma(w) ==
    LET schemaExists == w.schema.exists
    IN  IF schemaExists = FALSE
        THEN IF options.autoSetupPrisma
             THEN initWriteFormat(w)
             ELSE LET p == Ask(w, "initPrisma")
                  IN  IF p.ans THEN initWriteFormat(p) ELSE p
        ELSE w

\* promptRunMigration without the autoSetupPrisma branch
promptRunMigration_alwaysAsks(w) ==
    LET p == Ask(w, "runMigration")
    IN  IF p.ans THEN Caught(runMigration(p)) ELSE p

promptRunMigration(w) ==
    IF options.autoSetupPrisma
    THEN runMigration(w)
    ELSE LET p == Ask(w, "runMigration")
         IN  IF p.ans THEN Caught(runMigration(p)) ELSE p

promptGenerateClient(w) ==
    IF options.autoSetupPrisma
    THEN Caught(generateClient(w))
    ELSE LET p == Ask(w, "generateClient")
         IN  IF p.ans THEN Caught(generateClient(p)) ELSE p

promptInstallStudio(w) ==
    IF options.autoSetupPrisma
    THEN LET r == installStudio(w)
         IN  IF r.exc THEN r ELSE addCustomTab(r)
    ELSE LET p == Ask(w, "installStudio")
         IN  IF p.ans THEN addCustomTab(Caught(installStudio(p))) ELSE p

\* the check resolves lib/prisma.ts against rootDir, the writes against the working
\* directory of the process
writeClientPlugin(w) ==
    LET existingContent == w.accessor[rootDir] # "absent"
    IN  IF ~existingContent
        THEN LET mk == IF ~w.libDir
                       THEN LET r == Exec(w, "mkdir lib", TRUE)
                            IN  IF r.exc THEN r ELSE [r EXCEPT !.libDir = TRUE]
                       ELSE w
                 wr == IF mk.exc THEN mk
                       ELSE LET r == Exec(mk, "write accessor", TRUE)
                            IN  IF r.exc THEN r
                                ELSE [r EXCEPT !.accessor[Cwd] = "generated"]
             IN  Caught(wr)
        ELSE w

(***************************************************************************)
(* setupPrismaORM: the order of the handlers                               *)
(***************************************************************************)
\* the lifecycle test without its "postinstall" conjunct
studioOrEnd_ignoresPostinstall ==
    IF /\ npm_lifecycle_event # "dev:prepare"
       /\ npm_lifecycle_event # "test"
    THEN "promptInstallStudio"
    ELSE "addPlugin"

studioOrEnd ==
    IF /\ npm_lifecycle_event # "dev:prepare"
       /\ npm_lifecycle_event # "postinstall"
       /\ npm_lifecycle_event # "test"
    THEN "promptInstallStudio"
    ELSE "addPlugin"

\* setupPrismaORM with promptRunMigration awaited before promptInitPrisma
setupPrismaORM_migrateFirst(at) ==
    CASE at = "setup" ->
            IF force_skip_prisma_setup THEN "addPlugin"
            ELSE IF ~options.skipInstallations THEN "promptCli"
            ELSE studioOrEnd
      [] at = "promptCli" -> "promptRunMigration"
      [] at = "promptRunMigration" -> "promptInitPrisma"
      [] at = "promptInitPrisma" -> "promptGenerateClient"
      [] at = "promptGenerateClient" -> "writeClientPlugin"
      [] at = "writeClientPlugin" -> studioOrEnd
      [] at = "promptInstallStudio" -> "addPlugin"

\* the handler setupPrismaORM awaits after the one at `at`
\* setupPrismaORM without the return on force_skip_prisma_setup
setupPrismaORM_noForceSkip(at) ==
    CASE at = "setup" ->
            IF ~options.skipInstallations THEN "promptCli" ELSE studioOrEnd
      [] at = "promptCli" -> "promptInitPrisma"
      [] at = "promptInitPrisma" -> "promptRunMigration"
      [] at = "promptRunMigration" -> "promptGenerateClient"
      [] at = "promptGenerateClient" -> "writeClientPlugin"
      [] at = "writeClientPlugin" -> studioOrEnd
      [] at = "promptInstallStudio" -> "addPlugin"

setupPrismaORM(at) ==
    CASE at = "setup" ->
            IF force_skip_prisma_setup THEN "addPlugin"
            ELSE IF ~options.skipInstallations THEN "promptCli"
            ELSE studioOrEnd
      [] at = "promptCli" -> "promptInitPrisma"
      [] at = "promptInitPrisma" -> "promptRunMigration"
      [] at = "promptRunMigration" -> "promptGenerateClient"
      [] at = "promptGenerateClient" -> "writeClientPlugin"
      [] at = "writeClientPlugin" -> studioOrEnd
      [] at = "promptInstallStudio" -> "addPlugin"

\* The handler at `at` returned r.  An exception it did not catch leaves setup().
\* The first two conjuncts keep one representative of the inputs that differ only in
\* a part the handler did not consume: an answer to a prompt that was not issued, a
\* fault of an operation that was not performed or could not succeed anyway.
Commit(r, at) ==
    /\ r.asked \/ r.ans
    /\ r.faults \subseteq r.able
    /\ schema' = r.schema
    /\ accessor' = r.accessor
    /\ libDir' = r.libDir
    /\ cliPresent' = r.cli
    /\ trace' = r.trace
    /\ answers' = r.answers
    /\ cliFound' = r.found
    /\ customTabs' = r.tabs
    /\ studio' = r.studio
    /\ pc' = IF r.exc THEN "aborted" ELSE setupPrismaORM(at)
    /\ UNCHANGED <<options, npm_lifecycle_event, SKIP_PRISMA_SETUP, rootDir,
                   schemaAtStart, pluginAdded>>

(***************************************************************************)
(* Actions                                                                 *)
(***************************************************************************)
Init ==
    /\ options \in [Flags -> BOOLEAN]
    /\ npm_lifecycle_event \in LifecycleEvents
    /\ SKIP_PRISMA_SETUP \in BOOLEAN
    /\ rootDir \in Dirs
    /\ schema \in {NoFile, ExistingSchema}
    /\ accessor \in [Dirs -> {"absent", "user"}]
    /\ rootDir = Cwd => accessor["project"] = "absent"
    /\ libDir = (accessor[Cwd] # "absent")
    /\ cliPresent \in BOOLEAN
    /\ pc = "setup"
    /\ trace = <<>>
    /\ answers = NoAnswers
    /\ cliFound = "unknown"
    /\ schemaAtStart = schema
    /\ customTabs = 0
    /\ studio = FALSE
    /\ pluginAdded = FALSE

\* setup() reaches await setupPrismaORM()
Setup ==
    /\ pc = "setup"
    /\ pc' = setupPrismaORM("setup")
    /\ UNCHANGED <<options, npm_lifecycle_event, SKIP_PRISMA_SETUP, rootDir, schema,
                   accessor, libDir, cliPresent, trace, answers, cliFound,
                   schemaAtStart, customTabs, studio, pluginAdded>>

PromptCli ==
    /\ pc = "promptCli"
    /\ \E ans \in BOOLEAN, faults \in SUBSET {"npm install prisma"} :
          Commit(promptCli(World(ans, faults)), "promptCli")

PromptInitPrisma ==
    /\ pc = "promptInitPrisma"
    /\ \E ans \in BOOLEAN, faults \in SUBSET {"prisma init", "write schema", "prisma format"} :
          Commit(promptInitPrisma(World(ans, faults)), "promptInitPrisma")

PromptRunMigration ==
    /\ pc = "promptRunMigration"
    /\ \E ans \in BOOLEAN, faults \in SUBSET {"prisma migrate"} :
          Commit(promptRunMigration(World(ans, faults)), "promptRunMigration")

PromptGenerateClient ==
    /\ pc = "promptGenerateClient"
    /\ \E ans \in BOOLEAN, faults \in SUBSET {"npm install @prisma/client", "prisma generate"} :
          Commit(promptGenerateClient(World(ans, faults)), "promptGenerateClient")

WriteClientPlugin ==
    /\ pc = "writeClientPlugin"
    /\ \E faults \in SUBSET {"mkdir lib", "write accessor"} :
          Commit(writeClientPlugin(World(TRUE, faults)), "writeClientPlugin")

PromptInstallStudio ==
    /\ pc = "promptInstallStudio"
    /\ \E ans \in BOOLEAN, faults \in SUBSET {"prisma studio"} :
          Commit(promptInstallStudio(World(ans, faults)), "promptInstallStudio")

\* addPlugin(resolver("./runtime/plugin")) and the rest of setup()
AddPlugin ==
    /\ pc = "addPlugin"
    /\ pluginAdded' = TRUE
    /\ pc' = "done"
    /\ UNCHANGED <<options, npm_lifecycle_event, SKIP_PRISMA_SETUP, rootDir, schema,
                   accessor, libDir, cliPresent, trace, answers, cliFound,
                   schemaAtStart, customTabs, studio>>

Next ==
    \/ Setup
    \/ PromptCli
    \/ PromptInitPrisma
    \/ PromptRunMigration
    \/ PromptGenerateClient
    \/ WriteClientPlugin
    \/ PromptInstallStudio
    \/ AddPlugin

Spec == Init /\ [][Next]_vars


\* a new project: no CLI, no schema, no accessor, rootDir the working directory;
\* the flags that one handler reads are switched together
LiveInit ==
    /\ Init
    /\ rootDir = Cwd
    /\ schema = NoFile
    /\ accessor = [d \in Dirs |-> "absent"]
    /\ ~cliPresent
    /\ options.initPrisma = options.writeToSchema
    /\ options.initPrisma = options.formatSchema
    /\ options.installClient = options.generateClient

\* The runs on a new project.  setup() awaits each handler in turn, and every
\* external command and prompt is assumed to return: a handler that can take its
\* step takes it.
LiveSpec == LiveInit /\ [][Next]_vars /\ WF_vars(Next)

(***************************************************************************)
(* Vocabulary of the properties                                            *)
(***************************************************************************)
ExternalCommands ==
    {"prisma version", "npm install prisma", "prisma init", "prisma format",
     "prisma migrate", "npm install @prisma/client", "prisma generate", "prisma studio"}

Ran(cmd) == \E i \in DOMAIN trace : trace[i] = cmd

auto == options.autoSetupPrisma

Finished == pc \in {"done", "aborted"}

\* the run reaches the five handlers that skipInstallations guards
Installing == ~force_skip_prisma_setup /\ ~options.skipInstallations

\* the run reaches promptInstallStudio
StudioReached ==
    /\ ~force_skip_prisma_setup
    /\ npm_lifecycle_event \notin {"dev:prepare", "postinstall"}

\* the user said yes to prompt p, or no confirmation is asked for
Confirmed(p) == auto \/ answers[p] = "yes"

\* the operations of the action steps, with the flag and the prompt that govern each
ActionCommands ==
    {"npm install prisma", "prisma init", "read schema", "write schema", "prisma format",
     "prisma migrate", "npm install @prisma/client", "prisma generate", "prisma studio"}

FlagOf(cmd) ==
    CASE cmd = "npm install prisma" -> options.installCli
      [] cmd = "prisma init" -> options.initPrisma
      [] cmd \in {"read schema", "write schema"} -> options.writeToSchema
      [] cmd = "prisma format" -> options.formatSchema
      [] cmd = "prisma migrate" -> options.runMigration
      [] cmd \in {"npm install @prisma/client", "prisma generate"} ->
            options.installClient /\ options.generateClient
      [] cmd = "prisma studio" -> options.installStudio

PromptOf(cmd) ==
    CASE cmd = "npm install prisma" -> "installPrisma"
      [] cmd \in {"prisma init", "read schema", "write schema", "prisma format"} ->
            "initPrisma"
      [] cmd = "prisma migrate" -> "runMigration"
      [] cmd \in {"npm install @prisma/client", "prisma generate"} -> "generateClient"
      [] cmd = "prisma studio" -> "installStudio"

SchemaCommands == {"prisma init", "read schema", "write schema", "prisma format"}

\* position of an operation in the order the specification lists the steps in
Order(cmd) ==
    CASE cmd = "prisma version" -> 1
      [] cmd = "npm install prisma" -> 2
      [] cmd = "prisma init" -> 3
      [] cmd = "read schema" -> 4
      [] cmd = "write schema" -> 5
      [] cmd = "prisma format" -> 6
      [] cmd = "prisma migrate" -> 7
      [] cmd = "npm install @prisma/client" -> 8
      [] cmd = "prisma generate" -> 9
      [] cmd = "mkdir lib" -> 10
      [] cmd = "write accessor" -> 11
      [] cmd = "prisma studio" -> 12

(***************************************************************************)
(* C1                                                                      *)
(***************************************************************************)
\* C1: when skipInstallations is true, no external command is run during setup.
C1_NoCommandWhenSkipped ==
    options.skipInstallations => \A cmd \in ExternalCommands : ~Ran(cmd)

(***************************************************************************)
(* C2                                                                      *)
(***************************************************************************)
\* C2: when autoSetupPrisma is true, no prompt is issued at any point of the run.
C2_NoPromptWhenAutomatic ==
    auto => answers = NoAnswers

\* an automatic run that went through every handler
C2_Witness ==
    /\ auto
    /\ pc = "done"
    /\ Ran("npm install prisma")
    /\ Ran("prisma init")
    /\ Ran("prisma migrate")
    /\ Ran("prisma generate")
    /\ Ran("prisma studio")

(***************************************************************************)
(* C3                                                                      *)
(***************************************************************************)
\* C3 as stated: in a finished automatic run with skipInstallations false, every step
\* whose flag is true has run once, whatever the files and the lifecycle event.
C3_EveryEnabledStepRuns ==
    (pc = "done" /\ auto /\ ~options.skipInstallations /\ ~SKIP_PRISMA_SETUP) =>
        \A cmd \in ActionCommands \ {"read schema", "prisma generate"} :
            FlagOf(cmd) => Count(trace, cmd) = 1

\* C3 amended: in a finished automatic run that is not force-skipped and has
\* skipInstallations false, install CLI, migration and client installation are attempted
\* once exactly when their flags are true, whatever earlier steps did; init, write
\* schema and format schema exactly when their flag is true and there was no schema
\* file; the viewer exactly when installStudio is true and the lifecycle event is
\* neither dev:prepare nor postinstall.
C3_AutomaticRun ==
    (pc = "done" /\ auto /\ Installing) =>
        /\ Count(trace, "npm install prisma") = IF options.installCli THEN 1 ELSE 0
        /\ Count(trace, "prisma init") =
              IF options.initPrisma /\ ~schemaAtStart.exists THEN 1 ELSE 0
        /\ Count(trace, "write schema") =
              IF options.writeToSchema /\ ~schemaAtStart.exists THEN 1 ELSE 0
        /\ Count(trace, "prisma format") =
              IF options.formatSchema /\ ~schemaAtStart.exists THEN 1 ELSE 0
        /\ Count(trace, "prisma migrate") = IF options.runMigration THEN 1 ELSE 0
        /\ Count(trace, "npm install @prisma/client") =
              IF options.installClient /\ options.generateClient THEN 1 ELSE 0
        /\ Count(trace, "prisma studio") =
              IF options.installStudio /\ StudioReached THEN 1 ELSE 0

\* an automatic run on a project with a schema file, every flag true, event postinstall:
\* the schema steps and the viewer are left out, the other steps have run
C3_Witness ==
    /\ pc = "done"
    /\ auto
    /\ Installing
    /\ \A f \in Flags \ {"skipInstallations"} : options[f]
    /\ schemaAtStart.exists
    /\ npm_lifecycle_event = "postinstall"
    /\ ~Ran("prisma init")
    /\ ~Ran("prisma studio")
    /\ Ran("npm install prisma")
    /\ Ran("prisma migrate")
    /\ Ran("prisma generate")

(***************************************************************************)
(* C4                                                                      *)
(***************************************************************************)
\* C4: an accessor file lib/prisma.ts that exists is never overwritten or modified,
\* in whatever directory the project lives.
C4_ExistingAccessorUntouched ==
    [][\A d \in Dirs : accessor[d] # "absent" => accessor'[d] = accessor[d]]_vars

(***************************************************************************)
(* C5                                                                      *)
(***************************************************************************)
\* C5: which steps a finished run has attempted is decided by the flags, the answers,
\* the environment and the files at the start alone: no failure of an earlier step
\* keeps a later step that is enabled and confirmed from being attempted.
C5_FailureDoesNotPreventLaterSteps ==
    Finished =>
        /\ Ran("npm install prisma") <=>
              Installing /\ options.installCli /\ Confirmed("installPrisma")
        /\ \A cmd \in SchemaCommands :
              Ran(cmd) <=>
                 /\ Installing
                 /\ FlagOf(cmd) /\ ~schemaAtStart.exists
                 /\ Confirmed("initPrisma")
        /\ Ran("prisma migrate") <=>
              Installing /\ options.runMigration /\ Confirmed("runMigration")
        /\ Ran("npm install @prisma/client") <=>
              /\ Installing
              /\ options.installClient /\ options.generateClient
              /\ Confirmed("generateClient")
        /\ (Ran("mkdir lib") \/ Ran("write accessor")) => Installing
        /\ (Installing /\ accessor[rootDir] = "absent") =>
              (Ran("mkdir lib") \/ Ran("write accessor"))
        /\ Ran("prisma studio") <=>
              StudioReached /\ options.installStudio /\ Confirmed("installStudio")

\* prisma init failed, and write schema, format, migration, client generation and the
\* viewer were attempted all the same
C5_Witness ==
    /\ pc = "done"
    /\ Ran("prisma init")
    /\ Ran("write schema")
    /\ "generator" \notin Range(schema.text)
    /\ Ran("prisma format")
    /\ Ran("prisma migrate")
    /\ Ran("npm install @prisma/client")
    /\ Ran("write accessor")
    /\ Ran("prisma studio")

C7_FixedOrder ==
    \A i \in 1 .. Len(trace) - 1 : Order(trace[i]) < Order(trace[i + 1])

\* a run that performed an operation of every step
C7_Witness ==
    /\ pc = "done"
    /\ {"prisma version", "npm install prisma", "prisma init", "write schema",
        "prisma format", "prisma migrate", "prisma generate", "write accessor",
        "prisma studio"} \subseteq Range(trace)

(***************************************************************************)
(* C8                                                                      *)
(***************************************************************************)
\* C8: an operation of an action step is performed only if the step's flag is true and,
\* unless autoSetupPrisma is set, the user answered yes to the step's prompt.
C8_DoublyGated ==
    \A cmd \in ActionCommands : Ran(cmd) => FlagOf(cmd) /\ Confirmed(PromptOf(cmd))

\* an interactive run: a declined step with a true flag and a confirmed step with a
\* false flag did not act, a confirmed step with a true flag did
C8_Witness ==
    /\ pc = "done"
    /\ ~auto
    /\ options.runMigration /\ answers["runMigration"] = "no" /\ ~Ran("prisma migrate")
    /\ ~options.installStudio /\ answers["installStudio"] = "yes" /\ ~Ran("prisma studio")
    /\ options.initPrisma /\ answers["initPrisma"] = "yes" /\ Ran("prisma init")

C10_SchemaStepsIdempotent ==
    /\ schemaAtStart.exists =>
          /\ \A cmd \in SchemaCommands : ~Ran(cmd)
          /\ schema = schemaAtStart
    /\ Count(schema.text, "model User") <= 1

\* the end of a run on the schema file an earlier run created
C10_Witness ==
    /\ pc = "done"
    /\ schemaAtStart.exists
    /\ Count(schemaAtStart.text, "model User") = 1
    /\ options.initPrisma /\ options.writeToSchema /\ options.formatSchema
    /\ Ran("prisma migrate")

(***************************************************************************)
(* C11                                                                     *)
(***************************************************************************)
\* C11: the devtools panel is registered in a run only if the viewer process was
\* launched in that run: with installStudio false, or `prisma studio` not spawned or
\* its spawn failed, no panel is registered.
C11_PanelOnlyWithViewer ==
    customTabs > 0 => options.installStudio /\ Ran("prisma studio") /\ studio

====
